---- MODULE Spec2Model ----
(* Model of the Agon firmware upgrade utility (src/src/main.c, src/src/flash.h): *)
(* main(), the coprocessor (VDP) update handshake update_vdp()/vdp_ota_present(), *)
(* the liveness poll loop, and the flash programming loop update_mos().           *)
EXTENDS Integers, Sequences, FiniteSets, TLC

\* ---------------------------------------------------------------- constants
BUFFER1 == 327680
FLASHSIZE == 131072
PAGESIZE == 1024
FLASHPAGES == 128
FLASHSTART == 0
UNLOCKMATCHLENGTH == 9
MOS_MAGICLENGTH == 5
ESP32_MAGICLENGTH == 4
ESP32_MAGICSTART == 32
EXIT_FILENOTFOUND == 4
EXIT_INVALIDPARAMETER == 19
MAXATTEMPTS == 3
PROT_NONE == 0
PROT_ALL == 255

\* widths of the C integer types used by the code
U16 == 65536
U24 == 16777216

\* ---------------------------------------------------------------- bounds
\* longest command line (argv[1..]) explored
MaxArgs == 3
\* echo probes counted in the liveness poll loop before the count saturates
MaxProbes == 2
\* screen-dimension reports the coprocessor may still owe the engine
MaxPending == 1

mos_magicnumbers == <<243, 237, 125, 91, 195>>
esp32_magicnumbers == <<50, 84, 205, 171>>
\* "unlocked!"
unlockedText == <<117, 110, 108, 111, 99, 107, 101, 100, 33>>

Zeros(k) == [i \in 1..k |-> 0]
Min(a, b) == IF a < b THEN a ELSE b

\* ---------------------------------------------------------------- inputs
Tokens == {"all", "mos", "vdp", "batch", "force", "unknown"}
ArgLists == UNION {[1..k -> Tokens] : k \in 0..MaxArgs}

\* image sizes of the MOS firmware file offered to the engine
ImageSizes == {5120, 5121, FLASHSIZE, FLASHSIZE + 1, U24 + 5120}
\* MOS firmware files: size and leading bytes (at most MOS_MAGICLENGTH of them)
MosFiles ==
    {[size |-> s, head |-> mos_magicnumbers] : s \in ImageSizes}
    \cup {[size |-> 5120, head |-> <<243, 237, 125, 91, 0>>],
          [size |-> 5120, head |-> <<0, 237, 125, 91, 195>>],
          [size |-> 0, head |-> <<>>]}
\* VDP firmware files: leading bytes (at most ESP32_MAGICSTART + ESP32_MAGICLENGTH)
VdpFiles ==
    {Zeros(ESP32_MAGICSTART) \o esp32_magicnumbers,
     Zeros(ESP32_MAGICSTART) \o <<50, 84, 205, 0>>,
     esp32_magicnumbers \o Zeros(ESP32_MAGICSTART),
     esp32_magicnumbers}
\* what BUFFER1 may hold from before the run (its first MOS_MAGICLENGTH bytes)
StaleHeads == {Zeros(MOS_MAGICLENGTH), mos_magicnumbers}
\* what the uninitialised stack array of validFirmwareFiles may hold
StackGarbage == {Zeros(ESP32_MAGICSTART + ESP32_MAGICLENGTH),
                 Zeros(ESP32_MAGICSTART) \o esp32_magicnumbers}
\* the 10 characters the coprocessor shows at columns 8..17 of line 3 after "unlock"
Responses ==
    {unlockedText \o <<32>>,
     unlockedText \o <<0>>,
     <<117, 110, 108, 111, 99, 107, 101, 100, 63, 32>>,
     Zeros(UNLOCKMATCHLENGTH + 1)}
\* where the store to test[UNLOCKMATCHLENGTH] can land: a dead stack byte, or the
\* low byte of the loop counter n
OobOutcomes == {"dead", "n"}
\* what follows a staging pass that stores past the memory it was given: the run goes
\* on with what it has, or is lost
OverrunOutcomes == {"goes_on", "crashed"}
\* 32-bit checksums as <<high word, low word>>: the checksum of the bytes of the MOS
\* file, 0xDEADBEEF, and the checksums a pass over the file can produce when a read
\* may go wrong, 0xDEADBEEF and 0x12345678
FileCrc == <<57005, 48879>>
CrcVals == {FileCrc, <<4660, 22136>>}
\* the checksum of no bytes at all
CrcEmpty == <<0, 0>>
\* non-zero screen heights the coprocessor reports
ScrHeights == {30}

VARIABLES
    pc, exitcode,
    flashmos, flashvdp, optbatch, optforce,
    mosfile, vdpfile, buffer1, moscrc, magicok,
    scrHeight, tmp, vdpState, pending, vdpScreen,
    test, n, unlockSends, resetDone, triggerSent, probes, oobStores,
    crcresult, filesize, attempt, success, counter, pagemax, lastpagebytes,
    addressto, addressfrom,
    ie, flashProt, flash, hwFault,
    stageCrc, nUnlock, nEraseDone, nRelock, nVerify, progLog, verifyLog,
    crcAcc, crcData, crcPtr, crcFeeds, stagedEnd

optvars == <<flashmos, flashvdp, optbatch, optforce>>
filevars == <<mosfile, vdpfile, buffer1, moscrc, magicok>>
vdpvars == <<scrHeight, tmp, vdpState, pending, vdpScreen>>
otavars == <<test, n, unlockSends, resetDone, triggerSent, probes, oobStores>>
moslocals == <<crcresult, filesize, attempt, success, counter, pagemax,
               lastpagebytes, addressto, addressfrom>>
hwvars == <<ie, flashProt, flash, hwFault>>
ghostvars == <<stageCrc, nUnlock, nEraseDone, nRelock, nVerify, progLog, verifyLog>>
mosvars == <<moslocals, hwvars, ghostvars>>
crcvars == <<crcAcc, crcData, crcPtr, crcFeeds, stagedEnd>>
vars == <<pc, exitcode, optvars, filevars, vdpvars, otavars, mosvars, crcvars>>

\* ---------------------------------------------------------------- flash target
OldPage == [st |-> "old", era |-> -1, src |-> -1, len |-> 0]
ErasedPage(a) == [st |-> "erased", era |-> a, src |-> -1, len |-> 0]
InitFlash == [p \in 0..(FLASHPAGES - 1) |-> OldPage]

Init ==
    /\ pc = "start"
    /\ exitcode = -1
    /\ flashmos = FALSE /\ flashvdp = FALSE /\ optbatch = FALSE /\ optforce = FALSE
    /\ mosfile = [size |-> 0, head |-> <<>>]
    /\ vdpfile = <<>>
    /\ buffer1 \in StaleHeads
    /\ moscrc = CrcEmpty
    /\ magicok = "unchecked"
    /\ scrHeight \in {0} \cup ScrHeights
    /\ tmp = 0
    /\ vdpState = "normal"
    /\ pending \in 0..MaxPending
    /\ vdpScreen = Zeros(UNLOCKMATCHLENGTH + 1)
    /\ test = [i \in 0..(UNLOCKMATCHLENGTH - 1) |-> 0]
    /\ n = 0
    /\ unlockSends = 0 /\ resetDone = FALSE /\ triggerSent = FALSE
    /\ probes = 0 /\ oobStores = 0
    /\ crcresult = CrcEmpty /\ filesize = 0 /\ attempt = 0 /\ success = FALSE
    /\ counter = 0 /\ pagemax = 0 /\ lastpagebytes = 0
    /\ addressto = 0 /\ addressfrom = 0
    /\ ie = TRUE /\ flashProt = PROT_ALL /\ flash = InitFlash /\ hwFault = FALSE
    /\ stageCrc = CrcEmpty /\ nUnlock = 0 /\ nEraseDone = 0 /\ nRelock = 0 /\ nVerify = 0
    /\ progLog = <<>> /\ verifyLog = <<>>
    /\ crcAcc = CrcEmpty /\ crcData = <<>> /\ crcPtr = 0 /\ crcFeeds = 0
    /\ stagedEnd = 0

\* ---------------------------------------------------------------- pure helpers
\* fread(dest, 1, count, file) on a freshly rewound file whose bytes are data
Fread(dest, data, count) ==
    [i \in 1..Len(dest) |-> IF i <= Min(count, Len(data)) THEN data[i] ELSE dest[i]]

containsMosHeader(filestart) ==
    \A k \in 0..(MOS_MAGICLENGTH - 1) : mos_magicnumbers[k + 1] = filestart[k + 1]

containsESP32Header(filestart) ==
    \A k \in 0..(ESP32_MAGICLENGTH - 1) :
        esp32_magicnumbers[k + 1] = filestart[ESP32_MAGICSTART + k + 1]

\* parseCommands: args is argv[1..]; st carries the four option globals
RECURSIVE ParseFrom(_, _, _)
ParseFrom(args, i, st) ==
    IF i > Len(args)
    THEN [st EXCEPT !.ok = st.vdp \/ st.mos]
    ELSE LET command == args[i]
             hasname == i + 1 <= Len(args) /\ args[i + 1] = "unknown"
             fail == [st EXCEPT !.ok = FALSE]
         IN CASE command = "unknown" -> fail
              [] command = "all" ->
                    IF st.mos \/ st.vdp THEN fail
                    ELSE ParseFrom(args, i + 1, [st EXCEPT !.mos = TRUE, !.vdp = TRUE])
              [] command = "mos" ->
                    IF st.mos THEN fail
                    ELSE ParseFrom(args, IF hasname THEN i + 2 ELSE i + 1,
                                   [st EXCEPT !.mos = TRUE])
              [] command = "vdp" ->
                    IF st.vdp THEN fail
                    ELSE ParseFrom(args, IF hasname THEN i + 2 ELSE i + 1,
                                   [st EXCEPT !.vdp = TRUE])
              [] command = "batch" ->
                    IF st.batch THEN fail
                    ELSE ParseFrom(args, i + 1,
                                   [st EXCEPT !.batch = TRUE, !.force = TRUE,
                                              !.mos = TRUE, !.vdp = TRUE])
              [] command = "force" ->
                    IF st.force /\ ~st.batch THEN fail
                    ELSE ParseFrom(args, i + 1, [st EXCEPT !.force = TRUE])

parseCommands(args) ==
    ParseFrom(args, 1, [mos |-> FALSE, vdp |-> FALSE, batch |-> FALSE,
                        force |-> FALSE, ok |-> TRUE])

\* ---------------------------------------------------------------- main: checks
Exit(code) == pc' = "exit" /\ exitcode' = code

\* main lines 500-507
MainParse ==
    /\ pc = "start"
    /\ \E args \in ArgLists :
         IF Len(args) = 0
         THEN Exit(0) /\ UNCHANGED optvars
         ELSE LET r == parseCommands(args)
              IN /\ flashmos' = r.mos /\ flashvdp' = r.vdp
                 /\ optbatch' = r.batch /\ optforce' = r.force
                 /\ IF r.ok THEN pc' = "open" /\ UNCHANGED exitcode
                    ELSE Exit(EXIT_INVALIDPARAMETER)
    /\ UNCHANGED <<filevars, vdpvars, otavars, mosvars>>
    /\ UNCHANGED crcvars

\* main line 509, openFiles: each requested file is there or is not
MainOpenFiles ==
    /\ pc = "open"
    /\ \E mosthere \in BOOLEAN, vdpthere \in BOOLEAN, mf \in MosFiles, vf \in VdpFiles :
         /\ (~flashmos => mosthere /\ mf = [size |-> 0, head |-> <<>>])
         /\ (~flashvdp => vdpthere /\ vf = esp32_magicnumbers)
         /\ IF mosthere /\ vdpthere
            THEN /\ pc' = "validate" /\ UNCHANGED exitcode
                 /\ mosfile' = mf /\ vdpfile' = vf
            ELSE Exit(EXIT_FILENOTFOUND) /\ UNCHANGED <<mosfile, vdpfile>>
    /\ UNCHANGED <<optvars, buffer1, moscrc, magicok, vdpvars, otavars, mosvars>>
    /\ UNCHANGED crcvars

\* the verdict of the last check replaces the verdicts before it
ValidFirmware_LastWins(mosmagic, mossize, vdpmagic) ==
    IF flashvdp THEN vdpmagic ELSE mosmagic /\ mossize

\* validFirmwareFiles, lines 412-445: the verdict from the three checks
ValidFirmware(mosmagic, mossize, vdpmagic) ==
    /\ (flashmos => mosmagic /\ mossize)
    /\ (flashvdp => vdpmagic)

\* main lines 510-512
MainValidate ==
    /\ pc = "validate"
    /\ \E garbage \in StackGarbage :
         LET buf1 == IF flashmos THEN Fread(buffer1, mosfile.head, MOS_MAGICLENGTH)
                     ELSE buffer1
             buffer == Fread(garbage, vdpfile, ESP32_MAGICLENGTH + ESP32_MAGICSTART)
             mosmagic == containsMosHeader(buf1)
             vdpmagic == containsESP32Header(buffer)
             mossize == ~(mosfile.size % U24 > FLASHSIZE)
         IN /\ buffer1' = buf1
            /\ magicok' = IF (flashmos /\ ~mosmagic) \/ (flashvdp /\ ~vdpmagic)
                          THEN "fail" ELSE "pass"
            /\ IF ValidFirmware(mosmagic, mossize, vdpmagic)
               THEN pc' = "calc" /\ UNCHANGED exitcode
               ELSE Exit(EXIT_INVALIDPARAMETER)
    /\ UNCHANGED <<optvars, mosfile, vdpfile, moscrc, vdpvars, otavars, mosvars>>
    /\ UNCHANGED crcvars

\* the checksums a pass over the MOS file can produce: nothing read gives 0
ReadCrcs == IF mosfile.size = 0 THEN {CrcEmpty} ELSE CrcVals

\* lines 465-469 and 205-209: the read loop stores every byte of the file from BUFFER1
\* up, whatever the size the validation saw
StagedBytes(size) == size

\* where a staging pass leaves the run: past the staging region (the FLASHSIZE bytes
\* from BUFFER1 that an image accepted by the size check needs) the stores land on
\* memory the pass does not own
StagePcs(staged, nextpc) ==
    IF staged > FLASHSIZE
    THEN {IF o = "crashed" THEN "crashed" ELSE nextpc : o \in OverrunOutcomes}
    ELSE {nextpc}

\* calculateCRC32, lines 453-487 (main line 516)
MainCalculateCRC32 ==
    /\ pc = "calc"
    /\ IF flashmos
       THEN /\ moscrc' = (IF mosfile.size = 0 THEN CrcEmpty ELSE FileCrc)
            /\ buffer1' = Fread(buffer1, mosfile.head, MOS_MAGICLENGTH)
            /\ stagedEnd' = StagedBytes(mosfile.size)
            /\ pc' \in StagePcs(stagedEnd', "confirm")
       ELSE /\ moscrc' = CrcEmpty
            /\ pc' = "confirm"
            /\ UNCHANGED <<buffer1, stagedEnd>>
    /\ UNCHANGED <<exitcode, optvars, mosfile, vdpfile, magicok, vdpvars, otavars, mosvars>>
    /\ UNCHANGED <<crcAcc, crcData, crcPtr, crcFeeds>>

\* main lines 518-524: getResponse unless forced
MainConfirm ==
    /\ pc = "confirm"
    /\ \E yes \in BOOLEAN :
         IF ~optforce /\ ~yes
         THEN Exit(0)
         ELSE /\ (optforce => yes)
              /\ pc' = IF flashvdp THEN "vdp_wait" ELSE "mos_begin"
              /\ UNCHANGED exitcode
    /\ UNCHANGED <<optvars, filevars, vdpvars, otavars, mosvars>>
    /\ UNCHANGED crcvars

\* ---------------------------------------------------------------- coprocessor
\* The coprocessor answers an owed screen-dimension request: the interrupt handler of
\* the running firmware stores the reported height in the shared system variable.
VdpReport ==
    /\ vdpState \in {"normal", "newfw"}
    /\ pending > 0
    /\ ie
    /\ scrHeight' \in ScrHeights
    /\ pending' = pending - 1
    /\ UNCHANGED <<pc, exitcode, optvars, filevars, tmp, vdpState, vdpScreen,
                   otavars, mosvars>>
    /\ UNCHANGED crcvars

\* The coprocessor ends the transfer and boots the new firmware.
VdpFinish ==
    /\ vdpState = "updating"
    /\ vdpState' = "newfw"
    /\ UNCHANGED <<pc, exitcode, optvars, filevars, scrHeight, tmp, pending,
                   vdpScreen, otavars, mosvars>>
    /\ UNCHANGED crcvars

\* main line 527
VdpWait ==
    /\ pc = "vdp_wait"
    /\ scrHeight # 0
    /\ pc' = "vdp_save"
    /\ UNCHANGED <<exitcode, optvars, filevars, vdpvars, otavars, mosvars>>
    /\ UNCHANGED crcvars

\* main line 528
VdpSave ==
    /\ pc = "vdp_save"
    /\ tmp' = scrHeight
    /\ pc' = "vdp_reset"
    /\ UNCHANGED <<exitcode, optvars, filevars, scrHeight, vdpState, pending,
                   vdpScreen, otavars, mosvars>>
    /\ UNCHANGED crcvars

\* main line 529
VdpReset ==
    /\ pc = "vdp_reset"
    /\ scrHeight' = 0
    /\ resetDone' = TRUE
    /\ pc' = "ota_send"
    /\ UNCHANGED <<exitcode, optvars, filevars, tmp, vdpState, pending, vdpScreen,
                   test, n, unlockSends, triggerSent, probes, oobStores, mosvars>>
    /\ UNCHANGED crcvars

\* update_vdp lines 172-176 and vdp_ota_present lines 106-110: the unlock command
\* goes out and the coprocessor puts its answer on line 3 of the screen
OtaSend ==
    /\ pc = "ota_send"
    /\ unlockSends' = unlockSends + 1
    /\ vdpScreen' \in Responses
    /\ n' = 0
    /\ pc' = "ota_read"
    /\ UNCHANGED <<exitcode, optvars, filevars, scrHeight, tmp, vdpState, pending,
                   test, resetDone, triggerSent, probes, oobStores, mosvars>>
    /\ UNCHANGED crcvars

\* getCharAt(x, 3), lines 89-100: the character shown at column x of line 3
getCharAt(x) == vdpScreen[x - 8 + 1]

\* the loop counter after "test[n] = c; n++" when the store lands outside test
OobNext(outcome, c) ==
    IF outcome = "n"
    THEN ((n - (n % 256) + c) + 1) % U16
    ELSE (n + 1) % U16

\* vdp_ota_present line 112, one iteration of the read-back loop
OtaRead ==
    /\ pc = "ota_read"
    /\ IF n < UNLOCKMATCHLENGTH + 1
       THEN LET c == getCharAt(n + 8)
            IN IF n < UNLOCKMATCHLENGTH
               THEN /\ test' = [test EXCEPT ![n] = c]
                    /\ n' = (n + 1) % U16
                    /\ UNCHANGED <<pc, oobStores>>
               ELSE /\ \E outcome \in OobOutcomes : n' = OobNext(outcome, c)
                    /\ oobStores' = 1
                    /\ UNCHANGED <<pc, test>>
       ELSE pc' = "ota_cmp" /\ UNCHANGED <<test, n, oobStores>>
    /\ UNCHANGED <<exitcode, optvars, filevars, vdpvars, unlockSends, resetDone,
                   triggerSent, probes, mosvars>>
    /\ UNCHANGED crcvars

\* the comparison stops one character short
vdp_ota_present_Short ==
    \A k \in 0..(UNLOCKMATCHLENGTH - 2) : test[k] = unlockedText[k + 1]

\* memcmp(test, "unlocked!", UNLOCKMATCHLENGTH) == 0, line 114
vdp_ota_present ==
    \A k \in 0..(UNLOCKMATCHLENGTH - 1) : test[k] = unlockedText[k + 1]

\* vdp_ota_present lines 114-115 and update_vdp lines 176-180; the locals test and n
\* end with the call
OtaCompare ==
    /\ pc = "ota_cmp"
    /\ pc' = IF vdp_ota_present THEN "vdp_trigger" ELSE "vdp_failed"
    /\ test' = [i \in 0..(UNLOCKMATCHLENGTH - 1) |-> 0]
    /\ n' = 0
    /\ UNCHANGED <<exitcode, optvars, filevars, vdpvars, unlockSends, resetDone,
                   triggerSent, probes, oobStores, mosvars>>
    /\ UNCHANGED crcvars

\* update_vdp lines 182-185: startVDPupdate hands the file to the coprocessor
VdpTrigger ==
    /\ pc = "vdp_trigger"
    /\ triggerSent' = TRUE
    /\ vdpState' = "updating"
    /\ pending' = 0
    /\ pc' = "poll"
    /\ UNCHANGED <<exitcode, optvars, filevars, scrHeight, tmp, vdpScreen,
                   test, n, unlockSends, resetDone, probes, oobStores, mosvars>>
    /\ UNCHANGED crcvars

\* the poll loop gives up after MaxProbes probes
PollContinue_Timeout == scrHeight = 0 /\ probes < MaxProbes

\* main line 536: the poll loop goes round again
PollContinue == scrHeight = 0

\* main line 536, the test of the poll loop
PollTest ==
    /\ pc = "poll"
    /\ pc' = IF PollContinue THEN "echo" ELSE "poll_done"
    /\ UNCHANGED <<exitcode, optvars, filevars, vdpvars, otavars, mosvars>>
    /\ UNCHANGED crcvars

\* echoVDP(1), lines 289-314: a probe that asks for the screen dimensions
echoVDP ==
    /\ pc = "echo"
    /\ probes' = Min(probes + 1, MaxProbes)
    /\ pending' = IF vdpState = "updating" THEN pending
                  ELSE Min(pending + 1, MaxPending)
    /\ pc' = "poll"
    /\ UNCHANGED <<exitcode, optvars, filevars, scrHeight, tmp, vdpState, vdpScreen,
                   test, n, unlockSends, resetDone, triggerSent, oobStores, mosvars>>
    /\ UNCHANGED crcvars

\* main line 539
PollDone ==
    /\ pc = "poll_done"
    /\ pc' = "vdp_close"
    /\ UNCHANGED <<exitcode, optvars, filevars, vdpvars, otavars, mosvars>>
    /\ UNCHANGED crcvars

\* main lines 541-542
VdpFailed ==
    /\ pc = "vdp_failed"
    /\ pc' = IF ~optforce /\ flashmos THEN "ask_esc" ELSE "vdp_close"
    /\ UNCHANGED <<exitcode, optvars, filevars, vdpvars, otavars, mosvars>>
    /\ UNCHANGED crcvars

\* main lines 543-544: the operator presses ESC, the saved height is put back
AskEscape ==
    /\ pc = "ask_esc"
    /\ scrHeight' = tmp
    /\ pc' = "vdp_close"
    /\ UNCHANGED <<exitcode, optvars, filevars, tmp, vdpState, pending, vdpScreen,
                   otavars, mosvars>>
    /\ UNCHANGED crcvars

\* a failed coprocessor unlock ends the whole run
RunsMos_NeedsVdp == flashmos /\ (flashvdp => triggerSent)

\* main line 554: update_mos is run after the coprocessor part
RunsMos == flashmos

\* main lines 547-554 and 578; the count of probes is that of one poll loop
VdpClose ==
    /\ pc = "vdp_close"
    /\ IF RunsMos THEN pc' = "mos_begin" /\ UNCHANGED exitcode ELSE Exit(0)
    /\ probes' = 0
    /\ UNCHANGED <<optvars, filevars, vdpvars, test, n, unlockSends, resetDone,
                   triggerSent, oobStores, mosvars>>
    /\ UNCHANGED crcvars

\* ---------------------------------------------------------------- update_mos
\* the full last page is forgotten
LastPageBytes_NoFull(fsize) == fsize % PAGESIZE

\* lines 246-252: number of pages to write and length of the last one
PageMax(fsize) ==
    IF fsize % PAGESIZE # 0 THEN (fsize \div PAGESIZE) + 1 ELSE fsize \div PAGESIZE

LastPageBytes(fsize) ==
    IF fsize % PAGESIZE # 0 THEN fsize % PAGESIZE ELSE PAGESIZE

\* lines 259-262: length handed to fastmemcpy for page number cnt
PageLen(cnt, pmax, lastbytes) ==
    IF cnt = (pmax - 1) % U24 THEN lastbytes ELSE PAGESIZE

\* fastmemcpy(to, from, len) into the flash: it takes only with protection off, and
\* gives the copied bytes only on an erased page
FlashWrite(fl, prot, to, from, len) ==
    LET p == to \div PAGESIZE
    IN IF prot = PROT_NONE /\ to < FLASHSIZE
       THEN [fl EXCEPT ![p] = [st |-> IF fl[p].st = "erased" THEN "prog" ELSE "mixed",
                               era |-> fl[p].era,
                               src |-> from - BUFFER1,
                               len |-> len]]
       ELSE fl

\* page erase of lines 240-242: it takes only with protection off
FlashErase(fl, prot, p, a) ==
    IF prot = PROT_NONE THEN [fl EXCEPT ![p] = ErasedPage(a)] ELSE fl

\* the flash holds, over its first fsize bytes, the bytes of the staging region
FlashFaithful(fl, fsize) ==
    \A p \in 0..(FLASHPAGES - 1) :
        p * PAGESIZE < fsize =>
            /\ fl[p].st = "prog"
            /\ fl[p].src = p * PAGESIZE
            /\ fl[p].len >= Min(PAGESIZE, fsize - p * PAGESIZE)

\* a checksum over bytes that differ from the staged ones
OtherCrc(c) ==
    <<(c[1] + (IF c[2] + 1 = U16 THEN 1 ELSE 0)) % U16, (c[2] + 1) % U16>>

\* lines 273-275: crc32 over filesize bytes read from FLASHSTART
ReadBackCrc ==
    IF filesize = 0 \/ (~hwFault /\ FlashFaithful(flash, filesize))
    THEN stageCrc
    ELSE OtherCrc(stageCrc)

\* the staging check is left out
StageMismatch_Never(crc) == FALSE

\* line 214: the staged bytes do not have the expected checksum
StageMismatch(crc) == crc # moscrc

\* lines 188-218: stage the file into BUFFER1 and check its checksum
MosStage ==
    /\ pc = "mos_begin"
    /\ success' = FALSE
    /\ filesize' = mosfile.size % U24
    /\ buffer1' = Fread(buffer1, mosfile.head, MOS_MAGICLENGTH)
    /\ crcresult' \in ReadCrcs
    /\ stageCrc' = crcresult'
    /\ stagedEnd' = StagedBytes(mosfile.size)
    /\ pc' \in StagePcs(stagedEnd', IF StageMismatch(crcresult') THEN "mos_ret" ELSE "mos_di")
    /\ UNCHANGED <<exitcode, optvars, mosfile, vdpfile, moscrc, magicok, vdpvars,
                   otavars, attempt, counter, pagemax, lastpagebytes, addressto, addressfrom,
                   hwvars, nUnlock, nEraseDone, nRelock, nVerify, progLog, verifyLog>>
    /\ UNCHANGED <<crcAcc, crcData, crcPtr, crcFeeds>>

\* the disable is left out: the interrupt enable stays as it was
DiValue_Forgotten == ie

\* line 220: di clears the interrupt enable
DiValue == FALSE

\* lines 220-221
MosDisableInterrupts ==
    /\ pc = "mos_di"
    /\ ie' = DiValue
    /\ attempt' = 0
    /\ pc' = "mos_loop"
    /\ UNCHANGED <<exitcode, optvars, filevars, vdpvars, otavars,
                   crcresult, filesize, success, counter, pagemax, lastpagebytes,
                   addressto, addressfrom, flashProt, flash, hwFault, ghostvars>>
    /\ UNCHANGED crcvars

\* the retry bound off by one
LoopAgain_OneMore == ~success /\ attempt <= MAXATTEMPTS
\* the loop forgets to stop on success
LoopAgain_IgnoresSuccess == attempt < MAXATTEMPTS

\* line 222: another attempt is made
LoopAgain == ~success /\ attempt < MAXATTEMPTS

\* lines 222-230
MosLoop ==
    /\ pc = "mos_loop"
    /\ IF LoopAgain
       THEN /\ addressto' = FLASHSTART
            /\ addressfrom' = BUFFER1
            /\ pc' = "mos_unlock"
       ELSE pc' = "mos_ret" /\ UNCHANGED <<addressto, addressfrom>>
    /\ UNCHANGED <<exitcode, optvars, filevars, vdpvars, otavars,
                   crcresult, filesize, attempt, success, counter, pagemax,
                   lastpagebytes, hwvars, ghostvars>>
    /\ UNCHANGED crcvars

\* a retry takes the erase of the attempt before as still good and skips its own
EraseStart_Resume == IF attempt > 0 THEN FLASHPAGES ELSE 0

\* line 239: the erase loop of every attempt starts at unit 0
EraseStart == 0

\* lines 232-239: protection off on all blocks; the flash of this attempt works or not
MosUnlock ==
    /\ pc = "mos_unlock"
    /\ flashProt' = PROT_NONE
    /\ hwFault' \in BOOLEAN
    /\ counter' = EraseStart
    /\ nUnlock' = nUnlock + 1
    /\ progLog' = <<>>
    /\ pc' = "mos_erase"
    /\ UNCHANGED <<exitcode, optvars, filevars, vdpvars, otavars,
                   crcresult, filesize, attempt, success, pagemax, lastpagebytes,
                   addressto, addressfrom, ie, flash,
                   stageCrc, nEraseDone, nRelock, nVerify, verifyLog>>
    /\ UNCHANGED crcvars

\* the erase loop stops one unit short
EraseMore_Short(cnt) == cnt < FLASHPAGES - 1

\* line 239: the erase loop has units left to erase
EraseMore(cnt) == cnt < FLASHPAGES

\* lines 239-244, one iteration of the erase loop (the wait for completion included)
MosErase ==
    /\ pc = "mos_erase"
    /\ IF EraseMore(counter)
       THEN /\ flash' = FlashErase(flash, flashProt, counter, attempt)
            /\ counter' = (counter + 1) % U24
            /\ UNCHANGED <<pc, nEraseDone>>
       ELSE /\ pc' = "mos_pages"
            /\ nEraseDone' = nEraseDone + 1
            /\ UNCHANGED <<flash, counter>>
    /\ UNCHANGED <<exitcode, optvars, filevars, vdpvars, otavars,
                   crcresult, filesize, attempt, success, pagemax, lastpagebytes,
                   addressto, addressfrom, ie, flashProt, hwFault,
                   stageCrc, nUnlock, nRelock, nVerify, progLog, verifyLog>>
    /\ UNCHANGED crcvars

\* lines 246-252
MosPages ==
    /\ pc = "mos_pages"
    /\ pagemax' = PageMax(filesize)
    /\ lastpagebytes' = LastPageBytes(filesize)
    /\ counter' = 0
    /\ pc' = "mos_program"
    /\ UNCHANGED <<exitcode, optvars, filevars, vdpvars, otavars,
                   crcresult, filesize, attempt, success, addressto, addressfrom,
                   hwvars, ghostvars>>
    /\ UNCHANGED crcvars

\* lines 255-266, one iteration of the write loop
MosProgram ==
    /\ pc = "mos_program"
    /\ IF counter < pagemax
       THEN LET len == PageLen(counter, pagemax, lastpagebytes)
            IN /\ flash' = FlashWrite(flash, flashProt, addressto, addressfrom, len)
               /\ progLog' = Append(progLog, <<addressto, addressfrom, len>>)
               /\ addressto' = (addressto + PAGESIZE) % U24
               /\ addressfrom' = (addressfrom + PAGESIZE) % U24
               /\ counter' = (counter + 1) % U24
               /\ UNCHANGED pc
       ELSE /\ pc' = "mos_relock"
            /\ UNCHANGED <<flash, progLog, addressto, addressfrom, counter>>
    /\ UNCHANGED <<exitcode, optvars, filevars, vdpvars, otavars,
                   crcresult, filesize, attempt, success, pagemax, lastpagebytes,
                   ie, flashProt, hwFault,
                   stageCrc, nUnlock, nEraseDone, nRelock, nVerify, verifyLog>>
    /\ UNCHANGED crcvars

\* the re-lock is made only when nothing was found wrong, so it is skipped on a fault
RelockValue_Skipped == IF hwFault THEN flashProt ELSE PROT_ALL

\* line 269: the value the protection register gets
RelockValue == PROT_ALL

\* lines 267-269: protection back on all blocks
MosRelock ==
    /\ pc = "mos_relock"
    /\ flashProt' = RelockValue
    /\ nRelock' = nRelock + 1
    /\ pc' = "mos_verify"
    /\ UNCHANGED <<exitcode, optvars, filevars, vdpvars, otavars, moslocals,
                   ie, flash, hwFault,
                   stageCrc, nUnlock, nEraseDone, nVerify, progLog, verifyLog>>
    /\ UNCHANGED crcvars

\* lines 271-275
MosVerify ==
    /\ pc = "mos_verify"
    /\ crcresult' = ReadBackCrc
    /\ nVerify' = nVerify + 1
    /\ pc' = "mos_decide"
    /\ UNCHANGED <<exitcode, optvars, filevars, vdpvars, otavars,
                   filesize, attempt, success, counter, pagemax, lastpagebytes,
                   addressto, addressfrom, hwvars,
                   stageCrc, nUnlock, nEraseDone, nRelock, progLog, verifyLog>>
    /\ UNCHANGED crcvars

\* the decision looks at the checksum of the staging copy, not at the read-back
VerifyMatches_Staged == stageCrc = moscrc

\* line 276: the read-back checksum is the expected one
VerifyMatches == crcresult = moscrc

\* lines 276-283
MosDecide ==
    /\ pc = "mos_decide"
    /\ success' = IF VerifyMatches THEN TRUE ELSE success
    /\ attempt' = attempt + 1
    /\ verifyLog' = Append(verifyLog, crcresult = moscrc)
    /\ pc' = "mos_loop"
    /\ UNCHANGED <<exitcode, optvars, filevars, vdpvars, otavars,
                   crcresult, filesize, counter, pagemax, lastpagebytes,
                   addressto, addressfrom, hwvars,
                   stageCrc, nUnlock, nEraseDone, nRelock, nVerify, progLog>>
    /\ UNCHANGED crcvars

\* update_mos lines 285-286 returning into main lines 555-577
MosReturn ==
    /\ pc = "mos_ret"
    /\ pc' = IF success THEN (IF optbatch THEN "halt_batch" ELSE "reset")
             ELSE "bare_metal"
    /\ UNCHANGED <<exitcode, optvars, filevars, vdpvars, otavars, mosvars>>
    /\ UNCHANGED crcvars

Next ==
    \/ MainParse \/ MainOpenFiles \/ MainValidate \/ MainCalculateCRC32 \/ MainConfirm
    \/ VdpReport \/ VdpFinish
    \/ VdpWait \/ VdpSave \/ VdpReset
    \/ OtaSend \/ OtaRead \/ OtaCompare \/ VdpTrigger
    \/ PollTest \/ echoVDP \/ PollDone \/ VdpFailed \/ AskEscape \/ VdpClose
    \/ MosStage \/ MosDisableInterrupts \/ MosLoop \/ MosUnlock \/ MosErase
    \/ MosPages \/ MosProgram \/ MosRelock \/ MosVerify \/ MosDecide \/ MosReturn

Spec == Init /\ [][Next]_vars

\* ---------------------------------------------------------------- claims
MosPhases == {"mos_unlock", "mos_erase", "mos_pages", "mos_program", "mos_relock",
              "mos_verify", "mos_decide", "mos_loop"}
MosEnds == {"mos_ret", "reset", "halt_batch", "bare_metal"}
AllFalse(log) == \A i \in 1..Len(log) : ~log[i]
\* the first match of the read-back verify is on attempt k
FirstMatch(k) ==
    /\ Len(verifyLog) >= k
    /\ verifyLog[k]
    /\ \A j \in 1..(k - 1) : ~verifyLog[j]

\* C1: when the staged checksum equals the expected one and every read-back verify
\* mismatches, update_mos has made exactly 3 full unlock/erase/program/re-lock/verify
\* cycles when it returns, and it returns failure; there is never a 4th cycle.
C1_ExactlyThreeCycles ==
    /\ nUnlock <= MAXATTEMPTS
    /\ (pc = "mos_ret" /\ stageCrc = moscrc /\ AllFalse(verifyLog)) =>
          /\ ~success
          /\ attempt = 3
          /\ Len(verifyLog) = 3
          /\ nUnlock = 3 /\ nEraseDone = 3 /\ nRelock = 3 /\ nVerify = 3
          /\ Len(progLog) = pagemax

C1_Witness ==
    pc = "mos_ret" /\ stageCrc = moscrc /\ Len(verifyLog) = 3 /\ AllFalse(verifyLog)

\* C2: when the read-back verify first matches on attempt k (1 <= k <= 3), update_mos
\* returns success with attempt = k, and protection was re-enabled at the end of each
\* of the k attempts, the failed ones included.
C2_FirstMatchReturns ==
    /\ \A k \in 1..MAXATTEMPTS :
          (pc = "mos_ret" /\ FirstMatch(k)) =>
              /\ success
              /\ attempt = k
              /\ Len(verifyLog) = k
              /\ nRelock = k
              /\ flashProt = PROT_ALL
    /\ (pc \in {"mos_verify", "mos_decide"}) =>
          (nRelock = attempt + 1 /\ flashProt = PROT_ALL)
    /\ (pc = "mos_loop") => (nRelock = attempt /\ flashProt = PROT_ALL)
    /\ success => (pc \in {"mos_loop"} \cup MosEnds /\ FirstMatch(attempt))

C2_Witness ==
    pc = "mos_ret" /\ success /\ verifyLog = <<FALSE, TRUE>> /\ attempt = 2 /\ nRelock = 2

\* C3: in every attempt all flash units are erased before the first page is
\* programmed, protection is re-enabled after the last page program and before the
\* verify, the verify result is computed before the success/retry decision, and
\* attempts do not overlap.
C3_StateOrder ==
    /\ (pc \in {"mos_pages", "mos_program", "mos_relock"}) =>
          /\ nEraseDone = nUnlock
          /\ \A p \in 0..(FLASHPAGES - 1) : flash[p].era = attempt
    /\ \A p \in 0..(FLASHPAGES - 1) : flash[p].st # "mixed"
    /\ (pc = "mos_erase") => (Len(progLog) = 0 /\ nEraseDone = nUnlock - 1)
    /\ (pc \in {"mos_verify", "mos_decide"}) =>
          /\ flashProt = PROT_ALL
          /\ nRelock = nUnlock
          /\ Len(progLog) = pagemax
    /\ (pc = "mos_verify") => nVerify = attempt
    /\ (pc = "mos_decide") => nVerify = attempt + 1
    /\ (pc \in MosPhases \ {"mos_unlock", "mos_loop"}) => nUnlock = attempt + 1
    /\ (pc \in {"mos_loop", "mos_unlock"}) =>
          (nUnlock = attempt /\ nEraseDone = attempt /\ nRelock = attempt
           /\ nVerify = attempt /\ Len(verifyLog) = attempt)

C3_StepOrder ==
    /\ (flash' # flash /\ pc = "mos_program") =>
          (nEraseDone = nUnlock /\ \A p \in 0..(FLASHPAGES - 1) : flash[p].era = attempt)
    /\ (flashProt' # flashProt /\ flashProt' = PROT_ALL) =>
          (pc = "mos_relock" /\ counter = pagemax /\ Len(progLog) = pagemax)
    /\ (nVerify' # nVerify) => (pc = "mos_verify" /\ flashProt = PROT_ALL)
    /\ (success' # success \/ attempt' = attempt + 1) =>
          (pc = "mos_decide" /\ nVerify = attempt + 1)
    /\ (nUnlock' # nUnlock) => (nRelock = nUnlock /\ nVerify = nUnlock)

C3_PhaseOrder == []C3_StateOrder /\ [][C3_StepOrder]_vars

C3_Witness ==
    /\ pc = "mos_decide" /\ attempt = 1
    /\ nUnlock = 2 /\ nEraseDone = 2 /\ nRelock = 2 /\ nVerify = 2
    /\ Len(progLog) = 6

\* C4: update_mos disables interrupts, unlocks protection, erases or programs only
\* when the checksum computed while staging equals moscrc; on a staging mismatch it
\* returns failure with the flash and the protection register unchanged.
Touched ==
    \/ ~ie
    \/ nUnlock > 0
    \/ flashProt # PROT_ALL
    \/ flash # InitFlash

C4_NoFlashOnStageMismatch ==
    /\ Touched => (pc \in MosPhases \cup MosEnds \cup {"mos_di"} /\ stageCrc = moscrc)
    /\ (pc \in MosEnds /\ stageCrc # moscrc) => (~success /\ ~Touched)
    /\ (pc = "mos_di") => stageCrc = moscrc

C4_Witness == pc = "mos_ret" /\ stageCrc # moscrc /\ ~success /\ ~Touched

\* C5: protection is off only between the unlock and the re-lock of one attempt; the
\* re-lock is made in every attempt whatever the verify result turns out to be; and
\* wherever update_mos has returned, protection is on for all blocks.
C5_ProtectionWindow ==
    /\ flashProt \in {PROT_NONE, PROT_ALL}
    /\ (flashProt # PROT_ALL) =>
          (pc \in {"mos_erase", "mos_pages", "mos_program", "mos_relock"}
           /\ nUnlock = nRelock + 1)
    /\ (pc \in {"mos_erase", "mos_pages", "mos_program", "mos_relock"}) =>
          flashProt = PROT_NONE
    /\ (pc = "mos_decide") => (nRelock = attempt + 1 /\ flashProt = PROT_ALL)
    /\ (pc \in MosEnds \cup {"exit"}) => (flashProt = PROT_ALL /\ nRelock = nUnlock)

C5_Witness ==
    pc = "mos_decide" /\ crcresult # moscrc /\ nRelock = 2 /\ flashProt = PROT_ALL

ScreenText == SubSeq(vdpScreen, 1, UNLOCKMATCHLENGTH)
TestText == [i \in 1..UNLOCKMATCHLENGTH |-> test[i - 1]]

\* C7: the transfer trigger is sent only when the 9 characters read back after the
\* unlock command are "unlocked!"; on any other answer update_vdp fails, the unlock
\* is not sent again and no trigger is ever sent.
C7_State ==
    /\ unlockSends <= 1
    /\ (pc = "ota_cmp") => TestText = ScreenText
    /\ (triggerSent \/ pc \in {"vdp_trigger", "poll", "echo", "poll_done"}) =>
          ScreenText = unlockedText
    /\ (unlockSends = 1 /\ ScreenText # unlockedText) =>
          (~triggerSent /\ vdpState = "normal")
    /\ (pc \in {"vdp_failed", "ask_esc"}) => ScreenText # unlockedText

C7_Step ==
    /\ (pc = "ota_cmp" /\ pc' # pc) =>
          pc' = IF TestText = unlockedText THEN "vdp_trigger" ELSE "vdp_failed"
    /\ (triggerSent' /\ ~triggerSent) => pc = "vdp_trigger"
    /\ (unlockSends' # unlockSends) => pc = "ota_send"

C7_TriggerOnlyWhenUnlocked == []C7_State /\ [][C7_Step]_vars

C7_Witness ==
    /\ pc = "vdp_failed"
    /\ vdpScreen = <<117, 110, 108, 111, 99, 107, 101, 100, 63, 32>>
    /\ unlockSends = 1
    /\ ~triggerSent

\* both updates were asked for and the coprocessor unlock has failed
UnlockFailed ==
    /\ flashmos /\ flashvdp
    /\ unlockSends = 1
    /\ ~triggerSent
    /\ pc \notin {"ota_read", "ota_cmp", "vdp_trigger"}

\* C8: when both updates are requested and the coprocessor unlock fails, the engine
\* does not enter the liveness poll loop and does not end the run: it goes on, through
\* the operator's ESC where one is asked for, into update_mos.
C8_State ==
    UnlockFailed =>
        /\ probes = 0
        /\ vdpState = "normal"
        /\ pc \in {"vdp_failed", "ask_esc", "vdp_close", "mos_begin", "mos_di"}
                  \cup MosPhases \cup MosEnds \cup {"crashed"}
        /\ (pc = "crashed") => stagedEnd > FLASHSIZE

C8_Step ==
    (UnlockFailed /\ pc' # pc) =>
        /\ (pc = "vdp_failed") => pc' \in {"ask_esc", "vdp_close"}
        /\ (pc = "ask_esc") => pc' = "vdp_close"
        /\ (pc = "vdp_close") => pc' = "mos_begin"

C8_MosRunsAfterFailedUnlock == []C8_State /\ [][C8_Step]_vars

C8_Witness == UnlockFailed /\ pc = "mos_erase" /\ ~optforce

\* C9: the liveness signal is set to zero before the unlock and the trigger of the
\* coprocessor update, and after the trigger the poll loop is left only on a read of a
\* non-zero signal: on a read of zero it sends another probe, however many were sent.
C9_State ==
    /\ (unlockSends > 0 \/ triggerSent \/ pc \in {"ota_send", "ota_read", "ota_cmp"}) =>
          resetDone
    /\ (pc = "poll_done") => (scrHeight # 0 /\ triggerSent)
    /\ (probes > 0) => triggerSent

C9_Step ==
    /\ (pc = "poll" /\ pc' # pc) =>
          pc' = IF scrHeight = 0 THEN "echo" ELSE "poll_done"
    /\ (pc = "echo" /\ pc' # pc) => pc' = "poll"
    /\ (pc' = "poll_done" /\ pc # "poll_done") => (pc = "poll" /\ scrHeight # 0)
    /\ (resetDone' /\ ~resetDone) =>
          (scrHeight' = 0 /\ unlockSends = 0 /\ ~triggerSent)

C9_PollUntilLive == []C9_State /\ [][C9_Step]_vars

C9_Witness == pc = "poll_done" /\ probes = MaxProbes /\ scrHeight # 0

\* ---------------------------------------------------------------- page plan
\* image sizes for the page computation: every size up to two pages, and around
\* every page boundary up to the flash size
PlanSizes ==
    {s \in 0..FLASHSIZE :
        s <= 2 * PAGESIZE + 1 \/ s % PAGESIZE \in {0, 1, PAGESIZE - 1}}

\* update_mos at line 246 of its first attempt, all units erased, for a file of size s
InitPages ==
    /\ pc = "mos_pages"
    /\ exitcode = -1
    /\ flashmos = TRUE /\ flashvdp = FALSE /\ optbatch = FALSE /\ optforce = TRUE
    /\ \E s \in PlanSizes :
         /\ mosfile = [size |-> s,
                       head |-> SubSeq(mos_magicnumbers, 1, Min(s, MOS_MAGICLENGTH))]
         /\ filesize = s
         /\ moscrc = (IF s = 0 THEN CrcEmpty ELSE FileCrc)
    /\ vdpfile = esp32_magicnumbers
    /\ buffer1 = mos_magicnumbers
    /\ magicok = "pass"
    /\ scrHeight \in ScrHeights
    /\ tmp = 0
    /\ vdpState = "normal"
    /\ pending = 0
    /\ vdpScreen = Zeros(UNLOCKMATCHLENGTH + 1)
    /\ test = [i \in 0..(UNLOCKMATCHLENGTH - 1) |-> 0]
    /\ n = 0
    /\ unlockSends = 0 /\ resetDone = FALSE /\ triggerSent = FALSE
    /\ probes = 0 /\ oobStores = 0
    /\ crcresult = moscrc /\ attempt = 0 /\ success = FALSE
    /\ counter = FLASHPAGES /\ pagemax = 0 /\ lastpagebytes = 0
    /\ addressto = FLASHSTART /\ addressfrom = BUFFER1
    /\ ie = FALSE /\ flashProt = PROT_NONE
    /\ flash = [p \in 0..(FLASHPAGES - 1) |-> ErasedPage(0)]
    /\ hwFault = FALSE
    /\ stageCrc = moscrc /\ nUnlock = 1 /\ nEraseDone = 1 /\ nRelock = 0 /\ nVerify = 0
    /\ progLog = <<>> /\ verifyLog = <<>>
    /\ crcAcc = CrcEmpty /\ crcData = <<>> /\ crcPtr = 0 /\ crcFeeds = 0
    /\ stagedEnd = filesize

NextPages == MosPages \/ MosProgram \/ MosRelock \/ MosVerify

SpecPages == InitPages /\ [][NextPages]_vars

CeilPages(s) == (s + PAGESIZE - 1) \div PAGESIZE
\* length of page k (from 0) of an image of s bytes
ExpectedLen(s, k) ==
    IF k < CeilPages(s) - 1 THEN PAGESIZE
    ELSE IF s % PAGESIZE = 0 THEN PAGESIZE ELSE s % PAGESIZE

RECURSIVE SumLens(_)
SumLens(log) == IF log = <<>> THEN 0 ELSE log[1][3] + SumLens(Tail(log))

\* C10: an attempt programs exactly ceil(s/1024) pages in ascending address order,
\* page k from staging offset k*1024 to flash address k*1024, every page but the last
\* of length 1024 and the last of length s mod 1024 (1024 when s is a non-zero
\* multiple of 1024), so that the bytes programmed total s.
C10_PagePlan ==
    /\ Len(progLog) <= CeilPages(filesize)
    /\ \A k \in 1..Len(progLog) :
          progLog[k] = <<FLASHSTART + (k - 1) * PAGESIZE,
                         BUFFER1 + (k - 1) * PAGESIZE,
                         ExpectedLen(filesize, k - 1)>>
    /\ (pc \in {"mos_relock", "mos_verify", "mos_decide"}) =>
          /\ Len(progLog) = CeilPages(filesize)
          /\ SumLens(progLog) = filesize
          /\ \A p \in 0..(FLASHPAGES - 1) :
                flash[p].st = (IF p < CeilPages(filesize) THEN "prog" ELSE "erased")

C10_Witness ==
    /\ pc = "mos_relock"
    /\ filesize = 5 * PAGESIZE + 1
    /\ Len(progLog) = 6
    /\ progLog[6][3] = 1
    /\ progLog[5][3] = PAGESIZE

\* ---------------------------------------------------------------- streaming checksum
\* The checksum routines (crc32_initialize, crc32, crc32_finalize) are linked from
\* outside src/; they are modelled as the standard reflected CRC-32 the specification
\* names, held as <<high word, low word>>.
MaxBytes == 3
CrcBlock == 2
ByteVals == {0, 1, 165, 255}

RECURSIVE XorBits(_, _, _)
XorBits(a, b, k) ==
    IF k = 0 THEN 0 ELSE ((a + b) % 2) + 2 * XorBits(a \div 2, b \div 2, k - 1)

Xor16(a, b) == XorBits(a, b, 16)

\* the reflected polynomial EDB88320
CrcPoly == <<60856, 33568>>
\* crc32_initialize: all ones
CrcInit == <<U16 - 1, U16 - 1>>

\* one bit of the shift register
CrcShift(acc) ==
    LET sh == <<acc[1] \div 2, (acc[2] \div 2) + (acc[1] % 2) * (U16 \div 2)>>
    IN  IF acc[2] % 2 = 1
        THEN <<Xor16(sh[1], CrcPoly[1]), Xor16(sh[2], CrcPoly[2])>>
        ELSE sh

RECURSIVE CrcBits(_, _)
CrcBits(acc, k) == IF k = 0 THEN acc ELSE CrcBits(CrcShift(acc), k - 1)

CrcByte(acc, b) == CrcBits(<<acc[1], Xor16(acc[2], b)>>, 8)

RECURSIVE CrcFeed(_, _)
CrcFeed(acc, bytes) ==
    IF bytes = <<>> THEN acc ELSE CrcFeed(CrcByte(acc, Head(bytes)), Tail(bytes))

\* crc32_finalize: complement
CrcFinalize(acc) == <<U16 - 1 - acc[1], U16 - 1 - acc[2]>>

\* the byte at offset i of the staging region (and, once programmed, of flash):
\* the image, then whatever was there before
MemAt(i) == IF i < Len(crcData) THEN crcData[i + 1] ELSE 0

\* crc32(from, len): feed len bytes starting at offset from
crc32(acc, from, len) == CrcFeed(acc, [i \in 1..len |-> MemAt(from + i - 1)])

\* the length handed to crc32 after a read is the count fread returned
FeedLen_Block(bytesread) == CrcBlock
FeedLen(bytesread) == bytesread

InitCrc ==
    /\ pc = "crc_begin"
    /\ exitcode = -1
    /\ flashmos = TRUE /\ flashvdp = FALSE /\ optbatch = FALSE /\ optforce = TRUE
    /\ mosfile = [size |-> 0, head |-> <<>>]
    /\ vdpfile = <<>>
    /\ buffer1 = mos_magicnumbers
    /\ moscrc = CrcEmpty
    /\ magicok = "pass"
    /\ scrHeight \in ScrHeights
    /\ tmp = 0
    /\ vdpState = "normal"
    /\ pending = 0
    /\ vdpScreen = Zeros(UNLOCKMATCHLENGTH + 1)
    /\ test = [i \in 0..(UNLOCKMATCHLENGTH - 1) |-> 0]
    /\ n = 0
    /\ unlockSends = 0 /\ resetDone = FALSE /\ triggerSent = FALSE
    /\ probes = 0 /\ oobStores = 0
    /\ crcresult = CrcEmpty /\ attempt = 0 /\ success = FALSE
    /\ counter = 0 /\ pagemax = 0 /\ lastpagebytes = 0
    /\ addressto = 0 /\ addressfrom = 0
    /\ ie = TRUE /\ flashProt = PROT_ALL /\ flash = InitFlash /\ hwFault = FALSE
    /\ stageCrc = CrcEmpty /\ nUnlock = 0 /\ nEraseDone = 0 /\ nRelock = 0 /\ nVerify = 0
    /\ progLog = <<>> /\ verifyLog = <<>>
    /\ \E len \in 0..MaxBytes : crcData \in [1..len -> ByteVals]
    /\ filesize = Len(crcData)
    /\ crcAcc = CrcEmpty /\ crcPtr = 0 /\ crcFeeds = 0
    /\ stagedEnd = 0

crcframe == <<exitcode, optvars, filevars, vdpvars, otavars, filesize, attempt, success,
              counter, pagemax, lastpagebytes, addressto, addressfrom, hwvars,
              nUnlock, nEraseDone, nRelock, nVerify, progLog, verifyLog, crcData>>

\* update_mos lines 203-205: ptr = BUFFER1; crc32_initialize()
CrcStageInit ==
    /\ pc = "crc_begin"
    /\ crcAcc' = CrcInit
    /\ crcPtr' = 0
    /\ crcFeeds' = 0
    /\ pc' = "crc_stage"
    /\ UNCHANGED <<crcframe, crcresult, stageCrc, stagedEnd>>

\* update_mos lines 206-211: one fread of at most a block; a zero count ends the loop
CrcStageRead ==
    /\ pc = "crc_stage"
    /\ LET rem == Len(crcData) - crcPtr
       IN  \E bytesread \in (IF rem = 0 THEN {0} ELSE 1..Min(CrcBlock, rem)) :
             IF bytesread > 0
             THEN /\ crcAcc' = crc32(crcAcc, crcPtr, FeedLen(bytesread))
                  /\ crcPtr' = crcPtr + bytesread
                  /\ crcFeeds' = crcFeeds + 1
                  /\ stagedEnd' = crcPtr'
                  /\ UNCHANGED <<pc, crcresult, stageCrc>>
             ELSE /\ crcresult' = CrcFinalize(crcAcc)
                  /\ stageCrc' = crcresult'
                  /\ pc' = "crc_staged"
                  /\ UNCHANGED <<crcAcc, crcPtr, crcFeeds, stagedEnd>>
    /\ UNCHANGED crcframe

\* update_mos lines 273-275: fresh accumulator, one call over filesize bytes from the
\* start of flash, which by now holds the staged bytes
CrcReadBack ==
    /\ pc = "crc_staged"
    /\ crcAcc' = crc32(CrcInit, FLASHSTART, filesize)
    /\ crcresult' = CrcFinalize(crcAcc')
    /\ pc' = "crc_done"
    /\ UNCHANGED <<crcframe, crcPtr, crcFeeds, stageCrc, stagedEnd>>

NextCrc == CrcStageInit \/ CrcStageRead \/ CrcReadBack

SpecCrc == InitCrc /\ [][NextCrc]_vars

\* C11: the streaming checksum does not depend on how the bytes are cut into chunks:
\* while staging, the accumulator after any sequence of reads equals the accumulator of
\* one feed over the bytes read so far, and the finalized checksum of the chunked
\* staging pass equals the finalized checksum of the single read-back call over the
\* same bytes (an image of no bytes, fed as one zero-length chunk, included).
C11_ChunkIndependent ==
    /\ (pc = "crc_stage") => crcAcc = CrcFeed(CrcInit, SubSeq(crcData, 1, crcPtr))
    /\ (pc \in {"crc_staged", "crc_done"}) =>
          stageCrc = CrcFinalize(CrcFeed(CrcInit, crcData))
    /\ (pc = "crc_done") => crcresult = stageCrc
    /\ (pc = "crc_done" /\ crcData = <<>>) => crcresult = CrcEmpty
    /\ (pc = "crc_done" /\ crcData = <<0>>) => crcresult = <<53762, 61325>>

C11_Witness ==
    /\ pc = "crc_done"
    /\ Len(crcData) = MaxBytes
    /\ crcFeeds >= 2
    /\ crcresult = stageCrc
    /\ crcresult # CrcEmpty

\* ---------------------------------------------------------------- claims C12-C20
C12_State ==
    /\ (pc = "mos_erase") =>
          /\ counter <= FLASHPAGES
          /\ \A p \in 0..(counter - 1) : flash[p] = ErasedPage(attempt)
    /\ (pc = "mos_pages") =>
          \A p \in 0..(FLASHPAGES - 1) : flash[p] = ErasedPage(attempt)
    /\ (pc \in {"mos_program", "mos_relock", "mos_verify", "mos_decide"}) =>
          \A p \in 0..(FLASHPAGES - 1) :
              flash[p].era = attempt /\ flash[p].st \in {"erased", "prog"}

C12_Step ==
    /\ (pc = "mos_erase" /\ pc' = "mos_erase" /\ <<counter, flash>>' # <<counter, flash>>) =>
          /\ counter < FLASHPAGES
          /\ counter' = counter + 1
          /\ flash'[counter] = ErasedPage(attempt)
    /\ (pc = "mos_erase" /\ pc' # "mos_erase") =>
          (counter = FLASHPAGES /\ pc' = "mos_pages")
    /\ (pc = "mos_loop" /\ pc' # "mos_loop") => pc' \in {"mos_unlock", "mos_ret"}
    /\ (pc = "mos_unlock" /\ pc' # "mos_unlock") => (pc' = "mos_erase" /\ counter' = 0)
    /\ (pc' = "mos_program" /\ pc # "mos_program") => pc = "mos_pages"

\* C12: every attempt, the first and each retry, erases every unit 0..FLASHPAGES-1 of
\* the flash in turn, none skipped, before any page is programmed: the erase loop
\* advances by one unit at a time and is left only after unit FLASHPAGES-1, and a
\* retry goes from the loop head through unlock to an erase that starts again at
\* unit 0, never straight to programming.
C12_EraseAllEveryAttempt == []C12_State /\ [][C12_Step]_vars

C12_Witness ==
    /\ pc = "mos_pages"
    /\ attempt = 1
    /\ nEraseDone = 2
    /\ \A p \in 0..(FLASHPAGES - 1) : flash[p] = ErasedPage(1)

\* the flash is open to writes, or no longer holds the old firmware whole
FlashExposed == flashProt # PROT_ALL \/ flash # InitFlash

C13_State ==
    /\ FlashExposed => ~ie
    /\ (nUnlock > 0) => ~ie
    /\ (pc \in MosPhases) => ~ie

C13_Step ==
    /\ (nUnlock' # nUnlock) => (~ie /\ ~ie')
    /\ (ie' # ie) => (pc = "mos_di" /\ ~ie' /\ nUnlock = 0 /\ ~FlashExposed)
    /\ (FlashExposed \/ pc \in MosPhases) => <<scrHeight, pending>>' = <<scrHeight, pending>>

\* C13: interrupts are disabled in every state of update_mos in which protection is off
\* or the flash is erased or partly programmed: the disable comes before the first
\* unlock and holds through every attempt, and between an unlock and the re-lock no
\* interrupt handler runs (no report of the coprocessor is stored).
C13_InterruptsOffWhileExposed == []C13_State /\ [][C13_Step]_vars

C13_Witness ==
    /\ pc = "mos_program"
    /\ attempt = 1
    /\ flashProt = PROT_NONE
    /\ counter = 1
    /\ pending > 0
    /\ ~ie

C14_State ==
    /\ (pc = "mos_loop") => ~ie
    /\ (pc \in MosEnds) => (ie <=> nUnlock = 0)
    /\ (pc \in MosEnds /\ ie) => (StageMismatch(stageCrc) /\ ~FlashExposed)

C14_Step == ~ie => ~ie'

\* C14 (amended): the interrupt-disabled section is entered once, after staging has
\* passed and before the first attempt, and is never released: interrupts are disabled
\* at every retry boundary and stay disabled after update_mos returns; update_mos
\* returns with interrupts enabled only on the staging failure, which returns before
\* the disable and before the flash is touched.
C14_NeverReleased == []C14_State /\ [][C14_Step]_vars

C14_Witness ==
    /\ pc = "bare_metal"
    /\ attempt = MAXATTEMPTS
    /\ ~ie
    /\ flashProt = PROT_ALL

\* C14 as stated: the critical section is scoped to one attempt, so interrupts are
\* enabled again at every retry boundary and after update_mos has returned.
C14_ScopedToAttempt ==
    /\ (pc = "mos_loop" /\ attempt > 0) => ie
    /\ (pc \in MosEnds) => ie

\* C15: only the exhaustion of the retries is escalated to the fatal
\* "bare-metal recovery required" state: that state is entered only after MAXATTEMPTS
\* attempts whose verify all failed, and a staging error, which leaves the flash
\* untouched, never reaches it.
C15_OnlyExhaustionIsFatal ==
    (pc = "bare_metal") =>
        /\ Len(verifyLog) = MAXATTEMPTS
        /\ AllFalse(verifyLog)
        /\ ~StageMismatch(stageCrc)

C16_State ==
    /\ (pc = "mos_decide") => crcresult = ReadBackCrc
    /\ (pc \in {"mos_loop"} \cup MosEnds /\ nVerify > 0) =>
          /\ success <=> (crcresult = moscrc)
          /\ success <=> verifyLog[Len(verifyLog)]
          /\ crcresult = ReadBackCrc
    /\ (pc \in MosEnds /\ nVerify = 0) => ~success
    /\ success =>
          /\ ReadBackCrc = moscrc
          /\ filesize = 0 \/ (~hwFault /\ FlashFaithful(flash, filesize))
          /\ flashProt = PROT_ALL

C16_Step ==
    success => (success' /\ <<flash, flashProt, nUnlock, nEraseDone, progLog, crcresult>>'
                             = <<flash, flashProt, nUnlock, nEraseDone, progLog, crcresult>>)

\* C16: update_mos returns success exactly when the read-back checksum of the last
\* attempt made, computed afresh over filesize bytes of the flash itself, equals the
\* expected checksum; and once a verify has matched there is no further unlock, erase
\* or program, so the flash at return is the flash that was verified.
C16_SuccessIffReadBackMatches == []C16_State /\ [][C16_Step]_vars

C16_Witness ==
    /\ pc = "mos_ret"
    /\ success
    /\ filesize = 5 * PAGESIZE
    /\ nVerify = 3
    /\ crcresult = moscrc
    /\ FlashFaithful(flash, filesize)

\* C17: an image larger than FLASHSIZE bytes is rejected before any byte of it is
\* staged and before any flash operation; every staged byte lies within the FLASHSIZE
\* bytes of the staging region; and on every run that reaches programming the page
\* count is at most FLASHPAGES and every programmed byte lies in 0..FLASHSIZE-1.
C17_OversizeRejected ==
    /\ (flashmos /\ mosfile.size > FLASHSIZE) =>
          (pc \in {"validate", "exit"} /\ stagedEnd = 0 /\ ~Touched)
    /\ stagedEnd <= FLASHSIZE
    /\ pagemax <= FLASHPAGES
    /\ \A k \in 1..Len(progLog) :
          /\ progLog[k][1] >= FLASHSTART
          /\ progLog[k][1] + progLog[k][3] <= FLASHSTART + FLASHSIZE
          /\ progLog[k][2] >= BUFFER1
          /\ progLog[k][2] + progLog[k][3] <= BUFFER1 + FLASHSIZE

\* the handshake has been reported complete: the poll loop was entered and left
PollLeft == triggerSent /\ pc \notin {"poll", "echo"}

\* C18: the handshake is reported complete only when the coprocessor has resumed after
\* the transfer: whenever the poll loop has been left the transfer is over and the new
\* firmware runs, so a height stored by the old firmware between the reset to zero and
\* the trigger does not let the engine go on while the transfer is in progress.
C18_CompletionMeansResumed == PollLeft => vdpState = "newfw"

\* C19: while the unlock response is read back, every character is stored at an index
\* inside the UNLOCKMATCHLENGTH bytes of test: no store has gone outside, and the
\* index of the store about to be made is in 0..UNLOCKMATCHLENGTH-1.
C19_StoresInsideBuffer ==
    /\ oobStores = 0
    /\ (pc = "ota_read" /\ n < UNLOCKMATCHLENGTH + 1) => n \in 0..(UNLOCKMATCHLENGTH - 1)

\* C20: a failed unlock leaves the height as it was before the handshake: when main
\* is done with the coprocessor part after update_vdp returned false, the height
\* saved before the reset to zero has been written back.
C20_RestoredOnFailedUnlock ==
    (pc = "vdp_close" /\ unlockSends = 1 /\ ~triggerSent) => scrHeight = tmp

====
